---- MODULE Spec2Model ----
(***************************************************************************)
(* Model of the daily log-archive scripts of dixi-log-archive:             *)
(*   "mjs"     = scripts/archive-betterstack-to-drive.mjs                  *)
(*               (window evaluated by the log store, noise filter,         *)
(*                empty-result short-circuit)                              *)
(*   "part000" = unnamed/part_000                                          *)
(*               (window computed locally by utcRangeForYesterday)         *)
(* Strings that the code slices, trims or parses are sequences of          *)
(* one-character strings.  An instant (a JavaScript Date) is a record      *)
(* [day, ms]: whole days since 1970-01-01 and milliseconds within the day, *)
(* so that getTime() = day * MsPerDay + ms without 32-bit overflow.        *)
(***************************************************************************)
EXTENDS Integers, Sequences, FiniteSets, TLC

\* ------------------------------------------------------------------------
\* Bounds of the model
\* ------------------------------------------------------------------------
MaxBodyLen == 2
MaxRuns == 2

\* ------------------------------------------------------------------------
\* Time: JavaScript Date arithmetic
\* ------------------------------------------------------------------------
MsPerDay == 24 * 60 * 60 * 1000

\* Days since 1970-01-01 of the proleptic Gregorian date y-m-d (m in 1..12).
DaysFromCivil(y, m, d) ==
  LET yy  == IF m <= 2 THEN y - 1 ELSE y
      era == yy \div 400
      yoe == yy - era * 400
      mp  == IF m > 2 THEN m - 3 ELSE m + 9
      doy == (153 * mp + 2) \div 5 + d - 1
      doe == yoe * 365 + yoe \div 4 - yoe \div 100 + doy
  IN  era * 146097 + doe - 719468

\* The Gregorian date [y, m, d] (m in 1..12) of a day number.
CivilFromDays(z0) ==
  LET z   == z0 + 719468
      era == z \div 146097
      doe == z - era * 146097
      yoe == (doe - doe \div 1460 + doe \div 36524 - doe \div 146096) \div 365
      doy == doe - (365 * yoe + yoe \div 4 - yoe \div 100)
      mp  == (5 * doy + 2) \div 153
      d   == doy - (153 * mp + 2) \div 5 + 1
      m   == IF mp < 10 THEN mp + 3 ELSE mp - 9
  IN  [y |-> IF m <= 2 THEN yoe + era * 400 + 1 ELSE yoe + era * 400,
       m |-> m, d |-> d]

getUTCFullYear(t) == CivilFromDays(t.day).y
\* zero-based month, as in JavaScript
getUTCMonth(t) == CivilFromDays(t.day).m - 1
getUTCDate(t) == CivilFromDays(t.day).d

\* Date.UTC(year, monthIndex, day, h, mi, s): a year in 0..99 means 1900+year.
DateUTC(year, monthIndex, d, h, mi, s) ==
  LET y == IF year >= 0 /\ year <= 99 THEN 1900 + year ELSE year
  IN  [day |-> DaysFromCivil(y, monthIndex + 1, d),
       ms  |-> ((h * 60 + mi) * 60 + s) * 1000]

\* new Date(t.getTime() + delta), for |delta| of at most a few days
AddMs(t, delta) ==
  LET total == t.ms + delta
  IN  [day |-> t.day + total \div MsPerDay, ms |-> total % MsPerDay]

\* a.getTime() <= b.getTime()
TimeLeq(a, b) == a.day < b.day \/ (a.day = b.day /\ a.ms <= b.ms)
TimeLt(a, b) == a.day < b.day \/ (a.day = b.day /\ a.ms < b.ms)

\* b.getTime() - a.getTime() = MsPerDay
ExactlyOneDayApart(a, b) == b.day = a.day + 1 /\ b.ms = a.ms

MidnightAligned(t) == t.ms = 0

\* ------------------------------------------------------------------------
\* Strings as sequences of characters
\* ------------------------------------------------------------------------
Digit(n) == ToString(n)

\* n written with exactly w decimal digits (zero padded)
RECURSIVE PadNum(_, _)
PadNum(n, w) == IF w = 0 THEN <<>> ELSE PadNum(n \div 10, w - 1) \o <<Digit(n % 10)>>

\* Date.prototype.toISOString for years 0..9999: YYYY-MM-DDTHH:mm:ss.sssZ
toISOString(t) ==
  LET c  == CivilFromDays(t.day)
      h  == t.ms \div 3600000
      mi == (t.ms \div 60000) % 60
      s  == (t.ms \div 1000) % 60
      f  == t.ms % 1000
  IN  PadNum(c.y, 4) \o <<"-">> \o PadNum(c.m, 2) \o <<"-">> \o PadNum(c.d, 2)
      \o <<"T">> \o PadNum(h, 2) \o <<":">> \o PadNum(mi, 2) \o <<":">>
      \o PadNum(s, 2) \o <<".">> \o PadNum(f, 3) \o <<"Z">>

\* String.prototype.slice(0, n)
Slice(s, n) == SubSeq(s, 1, IF Len(s) < n THEN Len(s) ELSE n)

\* the characters of a sequence joined into one string
RECURSIVE Join(_)
Join(s) == IF s = <<>> THEN "" ELSE s[1] \o Join(Tail(s))

\* The ECMAScript WhiteSpace and LineTerminator code points, which trim()
\* strips.  TAB, LF, VT, FF, CR and SPACE are the characters themselves; the
\* code points outside ASCII are written by name.
WhiteSpaceChars ==
  {"\t", "\n", "", "\f", "\r", " ",
   "U+00A0", "U+1680", "U+2000", "U+2001", "U+2002", "U+2003", "U+2004",
   "U+2005", "U+2006", "U+2007", "U+2008", "U+2009", "U+200A", "U+2028",
   "U+2029", "U+202F", "U+205F", "U+3000", "U+FEFF"}

IsSpace(c) == c \in WhiteSpaceChars

RECURSIVE TrimStart(_)
TrimStart(s) == IF s # <<>> /\ IsSpace(s[1]) THEN TrimStart(Tail(s)) ELSE s

RECURSIVE TrimEnd(_)
TrimEnd(s) ==
  IF s # <<>> /\ IsSpace(s[Len(s)]) THEN TrimEnd(SubSeq(s, 1, Len(s) - 1)) ELSE s

\* String.prototype.trim
Trim(s) == TrimEnd(TrimStart(s))

\* s.replace(/\/+$/, "")
RECURSIVE StripTrailingSlashes(_)
StripTrailingSlashes(s) ==
  IF s # <<>> /\ s[Len(s)] = "/"
  THEN StripTrailingSlashes(SubSeq(s, 1, Len(s) - 1)) ELSE s

StartsWith(s, p) == Len(s) >= Len(p) /\ SubSeq(s, 1, Len(p)) = p

\* s.replace(c, ""): removes the first occurrence of character c
RECURSIVE RemoveFirst(_, _)
RemoveFirst(s, c) ==
  IF s = <<>> THEN <<>>
  ELSE IF s[1] = c THEN Tail(s) ELSE <<s[1]>> \o RemoveFirst(Tail(s), c)

\* String.prototype.slice(0, 10) of toISOString(): the YYYY-MM-DD date tag
DateTag(t) == Slice(toISOString(t), 10)

\* ------------------------------------------------------------------------
\* Time helpers of the two scripts
\* ------------------------------------------------------------------------
\* Variation: the window ends at the coming midnight instead of the last one.
utcRangeEndingTomorrow(clock) ==
  LET end   == DateUTC(getUTCFullYear(clock), getUTCMonth(clock), getUTCDate(clock) + 1, 0, 0, 0)
      start == AddMs(end, 0 - MsPerDay)
  IN  [start |-> start, end |-> end]

\* Variation: the window is shifted one day into the past.
utcRangeDayBeforeYesterday(clock) ==
  LET end   == DateUTC(getUTCFullYear(clock), getUTCMonth(clock), getUTCDate(clock) - 1, 0, 0, 0)
      start == AddMs(end, 0 - MsPerDay)
  IN  [start |-> start, end |-> end]

\* part_000: today 00:00Z and yesterday 00:00Z of the clock reading
utcRangeForYesterday(clock) ==
  LET end   == DateUTC(getUTCFullYear(clock), getUTCMonth(clock), getUTCDate(clock), 0, 0, 0)
      start == AddMs(end, 0 - MsPerDay)
  IN  [start |-> start, end |-> end]

\* archive-betterstack-to-drive.mjs: the date tag of yesterday 00:00Z
utcDateTagForYesterday(clock) ==
  LET today00 == DateUTC(getUTCFullYear(clock), getUTCMonth(clock), getUTCDate(clock), 0, 0, 0)
      y       == AddMs(today00, 0 - MsPerDay)
  IN  DateTag(y)

\* part_000: ISO string without the trailing Z
toCHDateTime64(d) == RemoveFirst(toISOString(d), "Z")

\* ------------------------------------------------------------------------
\* The log store's evaluation of the query bounds
\* ------------------------------------------------------------------------
DigitVal(c) == CHOOSE n \in 0..9 : Digit(n) = c

RECURSIVE ParseNum(_)
ParseNum(s) ==
  IF s = <<>> THEN 0 ELSE ParseNum(SubSeq(s, 1, Len(s) - 1)) * 10 + DigitVal(s[Len(s)])

\* toDateTime64('YYYY-MM-DDTHH:MM:SS.mmm', 3, 'UTC')
toDateTime64(s) ==
  [day |-> DaysFromCivil(ParseNum(SubSeq(s, 1, 4)), ParseNum(SubSeq(s, 6, 7)),
                         ParseNum(SubSeq(s, 9, 10))),
   ms  |-> ((ParseNum(SubSeq(s, 12, 13)) * 60 + ParseNum(SubSeq(s, 15, 16))) * 60
            + ParseNum(SubSeq(s, 18, 19))) * 1000 + ParseNum(SubSeq(s, 21, 23))]

\* toStartOfDay(now('UTC')) AS today_utc, today_utc - INTERVAL 1 DAY AS yesterday_utc
ServerDayWindow(serverNow) ==
  [start |-> [day |-> serverNow.day - 1, ms |-> 0],
   end   |-> [day |-> serverNow.day, ms |-> 0]]

\* The half-open window [start, end) that bounds dt when the log store
\* evaluates the query text q at its own clock reading serverNow.
QueryWindow(q, serverNow) ==
  IF q.serverSide THEN ServerDayWindow(serverNow)
  ELSE [start |-> toDateTime64(q.lower), end |-> toDateTime64(q.upper)]

\* ------------------------------------------------------------------------
\* Environment
\* ------------------------------------------------------------------------
\* process.env.X of an unset variable (not a string of characters)
Undefined == <<"undefined">>

\* the order of the must(...) calls at module top level
EnvNames ==
  <<"BETTERSTACK_CH_URL", "BETTERSTACK_CH_USER", "BETTERSTACK_CH_PASS",
    "BETTERSTACK_LOGS_TABLE", "DRIVE_FOLDER_ID", "GOOGLE_OAUTH_CLIENT_ID",
    "GOOGLE_OAUTH_CLIENT_SECRET", "GOOGLE_OAUTH_REFRESH_TOKEN">>

EnvNameSet == {EnvNames[i] : i \in 1..Len(EnvNames)}

\* JavaScript truthiness of an environment value: undefined and "" are falsy
Truthy(v) == v # Undefined /\ v # <<>>

\* must(v, name): throws when v is falsy
must(v, name) ==
  IF ~Truthy(v) THEN [threw |-> TRUE, message |-> <<"Missing env var: ", name>>]
  ELSE [threw |-> FALSE, message |-> <<>>]

\* Variation: the must(...) call for the last variable is missing.
RECURSIVE TopLevelChecksWithoutLast(_, _)
TopLevelChecksWithoutLast(e, i) ==
  IF i > Len(EnvNames) - 1 THEN [threw |-> FALSE, message |-> <<>>]
  ELSE LET r == must(e[EnvNames[i]], EnvNames[i])
       IN  IF r.threw THEN r ELSE TopLevelChecksWithoutLast(e, i + 1)

\* The eight top-level must(...) calls in order: the first throw, if any.
RECURSIVE TopLevelChecks(_, _)
TopLevelChecks(e, i) ==
  IF i > Len(EnvNames) THEN [threw |-> FALSE, message |-> <<>>]
  ELSE LET r == must(e[EnvNames[i]], EnvNames[i])
       IN  IF r.threw THEN r ELSE TopLevelChecks(e, i + 1)

\* chUrl of chQuery: trim, then strip trailing slashes
ChUrl(v) == StripTrailingSlashes(Trim(v))

UrlHasScheme(u) ==
  StartsWith(u, <<"h", "t", "t", "p", ":", "/", "/">>)
  \/ StartsWith(u, <<"h", "t", "t", "p", "s", ":", "/", "/">>)

\* Variation: only server errors count as failures.
ResOkBelow500(status) == status >= 200 /\ status <= 499

\* res.ok of fetch
ResOk(status) == status >= 200 /\ status <= 299

\* length of the response-body snippet in the query error
SnippetLenMjs == 1600
SnippetLenPart000 == 1200
SnippetLen(v) == IF v = "mjs" THEN SnippetLenMjs ELSE SnippetLenPart000

\* the Error thrown by chQuery on a non-2xx response
QueryError(v, status, text) ==
  <<"ClickHouse HTTP ", ToString(status), ": ", Join(Slice(text, SnippetLen(v)))>>

\* Variation: the empty-result test without trim().
IsEmptyResultNoTrim(jsonl) == jsonl = <<>>

\* the empty-result test of archive-betterstack-to-drive.mjs
IsEmptyResult(jsonl) == jsonl = <<>> \/ Len(Trim(jsonl)) = 0

\* whether the script variant has the empty-result short-circuit
HasSkip(v) == v = "mjs"

OutName(dayTag) == "dixi-logs-" \o Join(dayTag) \o ".jsonl.gz"

\* ------------------------------------------------------------------------
\* Inputs
\* ------------------------------------------------------------------------
Chars == {"\n", "\r", "x"}

\* all character sequences of length at most n
RECURSIVE SeqsUpTo(_)
SeqsUpTo(n) ==
  IF n = 0 THEN {<<>>}
  ELSE LET shorter == SeqsUpTo(n - 1)
       IN  shorter \cup {Append(b, c) : b \in {t \in shorter : Len(t) = n - 1}, c \in Chars}

Bodies == SeqsUpTo(MaxBodyLen)

Statuses == {200, 404, 500}

\* milliseconds between the local clock read and the log store's evaluation
Delays == {0, 1, 60 * 60 * 1000}

Instants ==
  { DateUTC(2024, 2, 10, 9, 0, 0),
    DateUTC(2024, 2, 10, 0, 0, 0),
    AddMs(DateUTC(2024, 2, 10, 0, 0, 0), 0 - 1),
    DateUTC(2024, 2, 1, 0, 30, 0),
    DateUTC(2024, 0, 1, 12, 0, 0) }

UrlValues ==
  { <<"h", "t", "t", "p", "s", ":", "/", "/", "h", "/", "/">>,
    <<"\r", "h", "t", "t", "p", ":", "/", "/", "h", "\n">>,
    <<"h", ".", "c", "o", "m">>,
    <<"h", "t", "t", "p", "s", ":", "/", "/">> }

AllSet(url) ==
  [n \in EnvNameSet |-> IF n = "BETTERSTACK_CH_URL" THEN url ELSE <<"v">>]

\* every variable set, or exactly one of them unset or empty
Envs ==
  {AllSet(u) : u \in UrlValues}
  \cup {[AllSet(<<"h", "t", "t", "p", ":", "/", "/", "h">>) EXCEPT ![n] = v] :
          n \in EnvNameSet, v \in {Undefined, <<>>}}

Variants == {"mjs", "part000"}

NoRes == [status |-> 0, read |-> FALSE, text |-> <<>>]
NoSql == [serverSide |-> FALSE, noiseFilter |-> FALSE, lower |-> <<>>, upper |-> <<>>]
NoTime == [day |-> 0, ms |-> 0]
NoRange == [start |-> NoTime, end |-> NoTime]

\* ------------------------------------------------------------------------
\* State
\* ------------------------------------------------------------------------
VARIABLES
  run,       \* number of the current process run (the job is scheduled repeatedly)
  variant,   \* which script this run executes
  env,       \* process.env of this run
  now,       \* the system clock reading of this run's new Date()
  pc,        \* "load", "main", "awaitFetch", "awaitText", "awaitUpload", "exited"
  exitCode,  \* process exit code, -1 while running
  err,       \* the Error that ended the run, <<>> if none
  stderr,    \* what the run printed on its error stream
  day,       \* the YYYY-MM-DD tag of main()
  outName,   \* file name in os.tmpdir()
  range,     \* part_000: the { start, end } that main() destructures
  sql,       \* the bounds of the query text
  res,       \* the log store's HTTP response: status, and text once read
  evalAt,    \* the log store's clock when it evaluated the query
  events,    \* calls made by this run, in order
  uploaded,  \* uploadToDrive has returned successfully in this run
  disk,      \* names of the files present in os.tmpdir()
  diskAtStart \* disk when this run started

vars == <<run, variant, env, now, pc, exitCode, err, stderr, day, outName, range, sql,
          res, evalAt, events, uploaded, disk, diskAtStart>>

Init ==
  /\ run = 1
  /\ variant \in Variants
  /\ env \in Envs
  /\ now \in Instants
  /\ pc = "load"
  /\ exitCode = -1
  /\ err = <<>>
  /\ stderr = <<>>
  /\ day = <<>>
  /\ outName = ""
  /\ range = NoRange
  /\ sql = NoSql
  /\ res = NoRes
  /\ evalAt = NoTime
  /\ events = <<>>
  /\ uploaded = FALSE
  /\ disk = {}
  /\ diskAtStart = {}

\* Variation: the error is logged but the exit code is left at 0.
FailExitZero(e) ==
  /\ pc' = "exited"
  /\ exitCode' = 0
  /\ err' = e
  /\ stderr' = e

\* An Error reaches the top level (uncaught at module load, or main().catch):
\* it is printed on the error stream and the process exits with code 1.
Fail(e) ==
  /\ pc' = "exited"
  /\ exitCode' = 1
  /\ err' = e
  /\ stderr' = e

\* main() returned: the process ends with code 0.
Succeed ==
  /\ pc' = "exited"
  /\ exitCode' = 0
  /\ UNCHANGED <<err, stderr>>

\* Module top level: the eight must(...) calls.
LoadModule ==
  /\ pc = "load"
  /\ LET r == TopLevelChecks(env, 1)
     IN  IF r.threw THEN Fail(r.message)
         ELSE /\ pc' = "main"
              /\ UNCHANGED <<exitCode, err, stderr>>
  /\ UNCHANGED <<run, variant, env, now, day, outName, range, sql, res, evalAt, events,
                 uploaded, disk, diskAtStart>>

\* the date tag and the query bounds that main() builds from the clock
MainDay(v, clock) ==
  IF v = "mjs" THEN utcDateTagForYesterday(clock)
  ELSE DateTag(utcRangeForYesterday(clock).start)

MainRange(v, clock) ==
  IF v = "mjs" THEN NoRange ELSE utcRangeForYesterday(clock)

MainSql(v, clock) ==
  IF v = "mjs"
  THEN [serverSide |-> TRUE, noiseFilter |-> TRUE, lower |-> <<>>, upper |-> <<>>]
  ELSE [serverSide |-> FALSE, noiseFilter |-> FALSE,
        lower |-> toCHDateTime64(utcRangeForYesterday(clock).start),
        upper |-> toCHDateTime64(utcRangeForYesterday(clock).end)]

\* main() up to the await of fetch inside chQuery.
MainStart ==
  /\ pc = "main"
  /\ day' = MainDay(variant, now)
  /\ outName' = OutName(day')
  /\ range' = MainRange(variant, now)
  /\ sql' = MainSql(variant, now)
  /\ LET chUrl == ChUrl(env["BETTERSTACK_CH_URL"])
     IN  IF ~UrlHasScheme(chUrl)
         THEN /\ Fail(<<"BETTERSTACK_CH_URL must start with http(s)://. Got: ", Join(chUrl)>>)
              /\ UNCHANGED events
         ELSE /\ events' = Append(events, "POST")
              /\ pc' = "awaitFetch"
              /\ UNCHANGED <<exitCode, err, stderr>>
  /\ UNCHANGED <<run, variant, env, now, res, evalAt, uploaded, disk, diskAtStart>>

\* Variation: a rejected fetch is attempted once more.
FetchRejectsRetry ==
  /\ pc = "awaitFetch"
  /\ IF Len(events) < 2
     THEN /\ events' = Append(events, "POST")
          /\ UNCHANGED <<pc, exitCode, err, stderr>>
     ELSE /\ Fail(<<"TransportError">>)
          /\ UNCHANGED events
  /\ UNCHANGED <<run, variant, env, now, day, outName, range, sql, res, evalAt,
                 uploaded, disk, diskAtStart>>

\* await fetch(...) rejects (network, DNS, TLS failure).
FetchRejects ==
  /\ pc = "awaitFetch"
  /\ Fail(<<"TransportError">>)
  /\ UNCHANGED <<run, variant, env, now, day, outName, range, sql, res, evalAt, events,
                 uploaded, disk, diskAtStart>>

\* await fetch(...) resolves: the log store has evaluated the query, delay
\* after the local clock read, and the status line has arrived.
FetchResolves(status, delay) ==
  /\ pc = "awaitFetch"
  /\ res' = [status |-> status, read |-> FALSE, text |-> <<>>]
  /\ evalAt' = AddMs(now, delay)
  /\ pc' = "awaitText"
  /\ UNCHANGED <<run, variant, env, now, exitCode, err, stderr, day, outName, range,
                 sql, events, uploaded, disk, diskAtStart>>

\* await res.text() rejects: the body stream fails after the status arrived.
TextRejects ==
  /\ pc = "awaitText"
  /\ Fail(<<"TransportError">>)
  /\ UNCHANGED <<run, variant, env, now, day, outName, range, sql, res, evalAt, events,
                 uploaded, disk, diskAtStart>>

\* await res.text() resolves: the rest of chQuery, then main() up to the
\* await of uploadToDrive.  w and st are the outcomes of writeFileSync and
\* statSync.
TextResolves(text, w, st) ==
  /\ pc = "awaitText"
  \* outcomes of calls that are not reached are not inputs
  /\ (~ResOk(res.status) \/ (HasSkip(variant) /\ IsEmptyResult(text))) => w = "ok"
  /\ (w # "ok" \/ variant # "mjs") => st = "ok"
  /\ res' = [res EXCEPT !.read = TRUE, !.text = text]
  /\ IF ~ResOk(res.status)
     THEN /\ Fail(QueryError(variant, res.status, text))
          /\ UNCHANGED <<events, disk>>
     ELSE IF HasSkip(variant) /\ IsEmptyResult(text)
     THEN /\ Succeed
          /\ UNCHANGED <<events, disk>>
     ELSE IF w # "ok"
     THEN /\ Fail(<<"FilesystemError">>)
          /\ events' = Append(events, "writeFileSync")
          /\ disk' = IF w = "writeFail" THEN disk \cup {outName} ELSE disk
     ELSE IF variant = "mjs" /\ st # "ok"
     THEN /\ Fail(<<"FilesystemError">>)
          /\ events' = events \o <<"writeFileSync", "statSync">>
          /\ disk' = disk \cup {outName}
     ELSE /\ events' = events \o (IF variant = "mjs"
                                  THEN <<"writeFileSync", "statSync", "files.create">>
                                  ELSE <<"writeFileSync", "files.create">>)
          /\ disk' = disk \cup {outName}
          /\ pc' = "awaitUpload"
          /\ UNCHANGED <<exitCode, err, stderr>>
  /\ UNCHANGED <<run, variant, env, now, day, outName, range, sql, evalAt, uploaded,
                 diskAtStart>>

\* Variation: the temp file is removed when the upload fails.
UploadRejectsCleansUp ==
  /\ pc = "awaitUpload"
  /\ Fail(<<"UploadFailed">>)
  /\ events' = Append(events, "unlinkSync")
  /\ disk' = disk \ {outName}
  /\ UNCHANGED <<run, variant, env, now, day, outName, range, sql, res, evalAt,
                 uploaded, diskAtStart>>

\* drive.files.create rejects (authorization, API or transport error).
UploadRejects ==
  /\ pc = "awaitUpload"
  /\ Fail(<<"UploadFailed">>)
  /\ UNCHANGED <<run, variant, env, now, day, outName, range, sql, res, evalAt, events,
                 uploaded, disk, diskAtStart>>

\* Variation: the unlinkSync call is missing.
UploadResolvesKeepsFile(u) ==
  /\ pc = "awaitUpload"
  /\ uploaded' = TRUE
  /\ Succeed
  /\ UNCHANGED <<run, variant, env, now, day, outName, range, sql, res, evalAt,
                 events, disk, diskAtStart>>

\* drive.files.create resolves: fs.unlinkSync(outPath), with outcome u.
UploadResolves(u) ==
  /\ pc = "awaitUpload"
  /\ uploaded' = TRUE
  /\ events' = Append(events, "unlinkSync")
  /\ IF u = "ok"
     THEN /\ disk' = disk \ {outName}
          /\ Succeed
     ELSE /\ Fail(<<"FilesystemError">>)
          /\ UNCHANGED disk
  /\ UNCHANGED <<run, variant, env, now, day, outName, range, sql, res, evalAt, diskAtStart>>

\* The scheduler starts the job again; only the temp directory persists.
NextRun ==
  /\ pc = "exited"
  /\ run < MaxRuns
  /\ run' = run + 1
  /\ variant' \in Variants
  /\ env' \in Envs
  /\ now' \in {t \in Instants : TimeLeq(now, t)}
  /\ pc' = "load"
  /\ exitCode' = -1
  /\ err' = <<>>
  /\ stderr' = <<>>
  /\ day' = <<>>
  /\ outName' = ""
  /\ range' = NoRange
  /\ sql' = NoSql
  /\ res' = NoRes
  /\ evalAt' = NoTime
  /\ events' = <<>>
  /\ uploaded' = FALSE
  /\ diskAtStart' = disk
  /\ UNCHANGED disk

Next ==
  \/ LoadModule
  \/ MainStart
  \/ FetchRejects
  \/ \E status \in Statuses, delay \in Delays : FetchResolves(status, delay)
  \/ TextRejects
  \/ \E text \in Bodies, w \in {"ok", "openFail", "writeFail"}, st \in {"ok", "fail"} :
        TextResolves(text, w, st)
  \/ UploadRejects
  \/ \E u \in {"ok", "fail"} : UploadResolves(u)
  \/ NextRun

Spec == Init /\ [][Next]_vars

\* ------------------------------------------------------------------------
\* Properties
\* ------------------------------------------------------------------------
Has(e) == \E i \in 1..Len(events) : events[i] = e
Count(e) == Cardinality({i \in 1..Len(events) : events[i] = e})
FirstIndex(e) == CHOOSE i \in 1..Len(events) : events[i] = e /\ \A j \in 1..(i - 1) : events[j] # e

\* the log store has answered in this run
Responded == res.status # 0
Status2xx == res.status \in 200..299
\* the body has been read and is empty or made of whitespace only
BodyBlank ==
  /\ res.read
  /\ \A i \in 1..Len(res.text) : res.text[i] \in {" ", "\t", "\n", "\f", "\r"}
AnyUnset == \E n \in EnvNameSet : env[n] = Undefined

\* C1 as stated: whenever the log store answers with a non-2xx status, the
\* run ends with exit code 1 on a query error whose message carries the
\* status code, and the run writes no gzip file and makes no Drive
\* files.create call.
C1_NonOkCarriesStatus ==
  (Responded /\ ~Status2xx) =>
     /\ pc \in {"awaitText", "exited"}
     /\ ~Has("writeFileSync")
     /\ ~Has("files.create")
     /\ disk = diskAtStart
     /\ pc = "exited" =>
           /\ exitCode = 1
           /\ Len(err) = 4
           /\ err[1] = "ClickHouse HTTP "
           /\ err[2] = ToString(res.status)

\* C1 (amended): whenever the log store answers with a non-2xx status, the
\* run writes no gzip file, makes no Drive files.create call and ends with
\* exit code 1; once the body has been read the error is the query error
\* whose message carries the status code, and when reading the body fails
\* the error is that transport error.
C1_NonOkAborts ==
  (Responded /\ ~Status2xx) =>
     /\ pc \in {"awaitText", "exited"}
     /\ ~Has("writeFileSync")
     /\ ~Has("files.create")
     /\ disk = diskAtStart
     /\ pc = "exited" =>
           /\ exitCode = 1
           /\ res.read =>
                 /\ Len(err) = 4
                 /\ err[1] = "ClickHouse HTTP "
                 /\ err[2] = ToString(res.status)
           /\ ~res.read => err = <<"TransportError">>

C1_Witness ==
  /\ res = [status |-> 500, read |-> TRUE, text |-> <<"x", "x">>]
  /\ exitCode = 1
  /\ err = <<"ClickHouse HTTP ", "500", ": ", "xx">>

\* C2: when one of the eight required environment variables is unset, the
\* process fails (exit code 1, naming the variable) with no log-store POST
\* and no Drive call ever issued, whichever variable it is.
C2_MissingEnvFailsBeforeNetwork ==
  \A n \in EnvNameSet :
     env[n] = Undefined =>
        /\ events = <<>>
        /\ pc \in {"load", "exited"}
        /\ pc = "exited" => (exitCode = 1 /\ err = <<"Missing env var: ", n>>)

C2_Witness ==
  /\ env["GOOGLE_OAUTH_REFRESH_TOKEN"] = Undefined
  /\ pc = "exited"
  /\ exitCode = 1

\* C3: the window of utcRangeForYesterday has end <= t, end on a UTC
\* midnight and end - start = 24 h; at 2024-03-10T09:00:00Z the window is
\* [2024-03-09T00:00Z, 2024-03-10T00:00Z) and the file name ends in
\* -2024-03-09.jsonl.gz (both scripts).
C3_WindowOfYesterday ==
  /\ (variant = "part000" /\ day # <<>>) =>
        /\ TimeLeq(range.end, now)
        /\ range.end.ms = 0
        /\ range.end.day = range.start.day + 1
        /\ range.end.ms = range.start.ms
  /\ (day # <<>> /\ now = [day |-> 19792, ms |-> 9 * 60 * 60 * 1000]) =>
        /\ outName = "dixi-logs-2024-03-09.jsonl.gz"
        /\ variant = "part000" =>
              range = [start |-> [day |-> 19791, ms |-> 0], end |-> [day |-> 19792, ms |-> 0]]

C3_Witness ==
  /\ variant = "part000"
  /\ now = [day |-> 19792, ms |-> 9 * 60 * 60 * 1000]
  /\ Join(toISOString(now)) = "2024-03-10T09:00:00.000Z"
  /\ outName = "dixi-logs-2024-03-09.jsonl.gz"
  /\ Join(toISOString(range.start)) = "2024-03-09T00:00:00.000Z"
  /\ Join(toISOString(range.end)) = "2024-03-10T00:00:00.000Z"

\* C4 as stated: the end of the window is a UTC midnight strictly after the
\* invocation time t, with start = end - 24 h, start < end, both aligned.
C4_EndStrictlyAfterInvocation ==
  (variant = "part000" /\ day # <<>>) =>
     /\ TimeLt(now, range.end)
     /\ range.end.day = range.start.day + 1
     /\ TimeLt(range.start, range.end)
     /\ range.start.ms = 0
     /\ range.end.ms = 0

\* C4 (amended): the end of the window is the most recent UTC midnight at or
\* before the invocation time t (end <= t < end + 24 h), start = end - 24 h,
\* start < end, and both are midnight-aligned.
C4_EndIsLastMidnight ==
  (variant = "part000" /\ day # <<>>) =>
     /\ TimeLeq(range.end, now)
     /\ TimeLt(now, [day |-> range.end.day + 1, ms |-> range.end.ms])
     /\ range.end.day = range.start.day + 1
     /\ TimeLt(range.start, range.end)
     /\ range.start.ms = 0
     /\ range.end.ms = 0

C4_Witness ==
  /\ variant = "part000"
  /\ day # <<>>
  /\ now = range.end
  /\ Join(toISOString(now)) = "2024-03-10T00:00:00.000Z"

\* C5: in archive-betterstack-to-drive.mjs, when the log store answers 2xx
\* with an empty or whitespace-only body, the run exits 0 without ever
\* creating the archive file, uploading or deleting.
C5_EmptyResultSkips ==
  (variant = "mjs" /\ Status2xx /\ BodyBlank) =>
     /\ pc = "exited"
     /\ exitCode = 0
     /\ events = <<"POST">>
     /\ disk = diskAtStart

C5_Witness ==
  /\ variant = "mjs"
  /\ res = [status |-> 200, read |-> TRUE, text |-> <<"\r", "\n">>]
  /\ exitCode = 0

\* the whole pipeline completed in this run
PipelineCompleted ==
  /\ Status2xx
  /\ Has("writeFileSync")
  /\ Has("files.create")
  /\ uploaded
  /\ Has("unlinkSync")
  /\ outName \notin disk

SkipPathTaken == variant = "mjs" /\ Status2xx /\ BodyBlank /\ events = <<"POST">>

\* C6: a run ends with exit code 0 exactly when the whole pipeline completed
\* or the empty-result skip path was taken, and with exit code 1 exactly when
\* a stage raised an error; no run exits 0 after a failed stage.
C6_ExitCodes ==
  /\ pc # "exited" => exitCode = -1
  /\ pc = "exited" =>
        /\ exitCode \in {0, 1}
        /\ exitCode = 0 <=> (PipelineCompleted \/ SkipPathTaken)
        /\ exitCode = 1 <=> err # <<>>
        /\ stderr = err

C6_Witness ==
  /\ pc = "exited"
  /\ exitCode = 0
  /\ PipelineCompleted
  /\ ~SkipPathTaken

\* the order of the archive file's events within a run
FileEventsInOrder ==
  /\ Count("writeFileSync") <= 1
  /\ Has("files.create") =>
        (Has("writeFileSync") /\ FirstIndex("writeFileSync") < FirstIndex("files.create"))
  /\ Has("unlinkSync") =>
        (uploaded /\ Has("files.create") /\ FirstIndex("files.create") < FirstIndex("unlinkSync"))
  /\ Count("unlinkSync") <= 1

\* C7 as stated: write (once) -> upload -> delete in that order, and after
\* any run that exits 0 the temp file does not exist on disk.
C7_NoTempFileAfterExit0 ==
  /\ FileEventsInOrder
  /\ (pc = "exited" /\ exitCode = 0) => outName \notin disk

\* C7 (amended): write (once) -> upload -> delete in that order; after a run
\* that exits 0 having written the file, the temp file does not exist on
\* disk; a run that exits 0 on the empty-result skip path leaves the temp
\* directory as it found it.
C7_FileLifecycle ==
  /\ FileEventsInOrder
  /\ (pc = "exited" /\ exitCode = 0 /\ Has("writeFileSync")) => outName \notin disk
  /\ (pc = "exited" /\ exitCode = 0 /\ ~Has("writeFileSync")) => disk = diskAtStart

C7_Witness ==
  /\ pc = "exited"
  /\ exitCode = 0
  /\ events = <<"POST", "writeFileSync", "statSync", "files.create", "unlinkSync">>
  /\ outName \in diskAtStart
  /\ outName \notin disk

\* C8: a run sends at most one POST to the log store and makes at most one
\* Drive files.create call; once a stage has failed the run has ended, and
\* the failed stage is the last one that ran.
C8_NoRetries ==
  /\ Count("POST") <= 1
  /\ Count("files.create") <= 1
  /\ err # <<>> => pc = "exited"
  /\ err = <<"TransportError">> => events = <<"POST">>
  /\ (Responded /\ ~Status2xx) => events = <<"POST">>
  /\ err = <<"UploadFailed">> => events[Len(events)] = "files.create"
  /\ err = <<"FilesystemError">> =>
        events[Len(events)] \in {"writeFileSync", "statSync", "unlinkSync"}

C8_Witness ==
  /\ err = <<"UploadFailed">>
  /\ Count("POST") = 1
  /\ Count("files.create") = 1

\* C9: when an error occurs after the archive file has been written and
\* before the deletion call, the run logs the error, exits non-zero, never
\* calls the delete and leaves the temp file on disk; the file is deleted
\* only where the upload succeeded.
C9_FailedUploadLeavesFile ==
  /\ (err # <<>> /\ (Has("statSync") \/ Has("files.create")) /\ ~uploaded) =>
        /\ pc = "exited"
        /\ exitCode # 0
        /\ stderr = err
        /\ ~Has("unlinkSync")
        /\ outName \in disk
  /\ (Has("writeFileSync") /\ outName \notin disk) => (uploaded \/ err = <<"FilesystemError">>)

C9_Witness ==
  /\ err = <<"UploadFailed">>
  /\ exitCode = 1
  /\ outName \in disk
  /\ outName \notin diskAtStart

\* C10: in each script, for every invocation instant and every delay before
\* the log store evaluates the query, the date in the archive file name is
\* the start date of the window that bounds the executed query, and the
\* window of the log-store-evaluated script is the one utcRangeForYesterday
\* gives for the same invocation.
C10_NameMatchesExecutedWindow ==
  (Responded /\ Status2xx /\ Has("writeFileSync")) =>
     /\ day = DateTag(QueryWindow(sql, evalAt).start)
     /\ QueryWindow(sql, evalAt).start.day = now.day - 1
     /\ QueryWindow(sql, evalAt).end = [day |-> now.day, ms |-> 0]

====
